---- MODULE Spec2Model ----
(***************************************************************************)
(* Apartment-search chatbot: the query-intent router and retrieval engine  *)
(* of app/data_loader.py and the response envelope of app/chatbot.py.      *)
(*                                                                         *)
(* Text is modelled as TLA+ strings, character by character: `in` is       *)
(* substring containment, lower() maps A-Z to a-z, strip() removes         *)
(* leading and trailing whitespace, and the regular expressions are        *)
(* matched leftmost-first as Python's re.search does.                      *)
(***************************************************************************)
EXTENDS Integers, Sequences, FiniteSets, TLC

VARIABLES
    collection,           \* the MongoDB collection: a sequence of apartment records
    vectorstore,          \* the persisted Chroma index: a sequence of document metadata
    op,                   \* the call in progress, "idle" between calls
    query,                \* its query argument
    top_k,                \* its top_k argument
    available_locations,  \* the known locations it worked with
    neighbors,            \* what the vector index returned to it
    intent,               \* classify_user_query's return value
    location,             \* the location the operation resolved
    store_call,           \* the find(...).sort(...).limit(...) it sent to the store
    results,              \* the retrieval results
    enriched,             \* handle_user_query's return value
    response              \* get_chat_response's return value

vars == <<collection, vectorstore, op, query, top_k, available_locations,
          neighbors, intent, location, store_call, results, enriched, response>>

-----------------------------------------------------------------------------
(* Bounds of the model *)

MaxWords == 2
MaxLocations == 2
MaxRecords == 2
MaxTopK == 2

-----------------------------------------------------------------------------
(* Python values *)

\* Python's None where a string is expected: a value no string of the model equals
None == "<None>"

\* bool(x) of an optional string
Truthy(x) == x # None /\ x # ""

Min(S) == CHOOSE x \in S : \A y \in S : x <= y

Range(s) == {s[i] : i \in 1..Len(s)}

\* s[i:i+1], 1-based: "" outside the string
CharAt(s, i) == IF 1 <= i /\ i <= Len(s) THEN SubSeq(s, i, i) ELSE ""

\* t in s
Contains(s, t) == \E i \in 1..(Len(s) - Len(t) + 1) : SubSeq(s, i, i + Len(t) - 1) = t

\* t occurs in s at position i
At(s, i, t) == i >= 1 /\ i + Len(t) - 1 <= Len(s) /\ SubSeq(s, i, i + Len(t) - 1) = t

UpperAlphabet == "ABCDEFGHIJKLMNOPQRSTUVWXYZ"
LowerAlphabet == "abcdefghijklmnopqrstuvwxyz"
UpperChars == {CharAt(UpperAlphabet, i) : i \in 1..26}
LowerMap == [c \in UpperChars |->
               CharAt(LowerAlphabet, CHOOSE i \in 1..26 : CharAt(UpperAlphabet, i) = c)]

RECURSIVE Lower(_)
\* str.lower()
Lower(s) ==
    IF s = "" THEN ""
    ELSE LET c == CharAt(s, 1)
         IN (IF c \in UpperChars THEN LowerMap[c] ELSE c) \o Lower(SubSeq(s, 2, Len(s)))

Whitespace == {" ", "\t", "\n", "\r", "\f"}

RECURSIVE LStrip(_)
LStrip(s) ==
    IF s # "" /\ CharAt(s, 1) \in Whitespace THEN LStrip(SubSeq(s, 2, Len(s))) ELSE s

RECURSIVE RStrip(_)
RStrip(s) ==
    IF s # "" /\ CharAt(s, Len(s)) \in Whitespace THEN RStrip(SubSeq(s, 1, Len(s) - 1)) ELSE s

\* str.strip()
Strip(s) == RStrip(LStrip(s))

\* s.split(",")[0]
FirstSegment(s) ==
    LET commas == {i \in 1..Len(s) : CharAt(s, i) = ","}
    IN IF commas = {} THEN s ELSE SubSeq(s, 1, Min(commas) - 1)

-----------------------------------------------------------------------------
(* Location resolver *)

\* location_map = {loc.lower(): loc for loc in available_locations}: the keys in
\* the order of their first insertion, each with the value inserted last
location_map(available) ==
    LET firsts == {i \in 1..Len(available) :
                     \A j \in 1..(i - 1) : Lower(available[j]) # Lower(available[i])}
        last(i) == CHOOSE j \in 1..Len(available) :
                     /\ Lower(available[j]) = Lower(available[i])
                     /\ \A k \in (j + 1)..Len(available) : Lower(available[k]) # Lower(available[i])
        RECURSIVE build(_)
        build(i) ==
            IF i > Len(available) THEN <<>>
            ELSE (IF i \in firsts
                  THEN <<[loc_lower |-> Lower(available[i]), loc_standard |-> available[last(i)]]>>
                  ELSE <<>>) \o build(i + 1)
    IN build(1)

\* city_aliases.values(), flattened in iteration order
city_aliases == <<"pune", "puna", "mumbai", "bombay", "bangalore", "bengaluru",
                  "delhi", "new delhi", "dilli">>

\* lines 71-73: the entries whose loc_lower is in the query
direct_matches(qq, map) == {i \in 1..Len(map) : Contains(qq, map[i].loc_lower)}

\* lines 76-79: the entries whose loc_lower.split(",")[0].strip() is in the query
partial_matches(qq, map) ==
    {i \in 1..Len(map) : Contains(qq, Strip(FirstSegment(map[i].loc_lower)))}

\* lines 94-95: the entries whose loc_lower contains the alias
alias_hits(a, map) == {i \in 1..Len(map) : Contains(map[i].loc_lower, a)}

\* lines 89-95: the aliases found in the query for which some entry contains the alias
aliases_matched(qq, map) ==
    {k \in 1..Len(city_aliases) :
        Contains(qq, city_aliases[k]) /\ alias_hits(city_aliases[k], map) # {}}

\* the first entry of a stage's matches
first_standard(matched, map) == map[Min(matched)].loc_standard

\* lines 70-96: the three stages over the lower-cased query and the map
resolve_location(qq, map) ==
    IF direct_matches(qq, map) # {} THEN first_standard(direct_matches(qq, map), map)
    ELSE IF partial_matches(qq, map) # {} THEN first_standard(partial_matches(qq, map), map)
    ELSE IF aliases_matched(qq, map) # {}
    THEN first_standard(alias_hits(city_aliases[Min(aliases_matched(qq, map))], map), map)
    ELSE None

\* the three stages with the partial (city part) stage before the direct one
resolve_location_partial_first(qq, map) ==
    IF partial_matches(qq, map) # {} THEN first_standard(partial_matches(qq, map), map)
    ELSE IF direct_matches(qq, map) # {} THEN first_standard(direct_matches(qq, map), map)
    ELSE IF aliases_matched(qq, map) # {}
    THEN first_standard(alias_hits(city_aliases[Min(aliases_matched(qq, map))], map), map)
    ELSE None

\* extract_location_from_query with the partial stage before the direct one
extract_location_partial_first(q, available) ==
    resolve_location_partial_first(Lower(q), location_map(available))

extract_location_from_query(q, available) ==
    resolve_location(Lower(q), location_map(available))

-----------------------------------------------------------------------------
(* Intent classifier *)

greetings == <<"hi", "hello", "hey", "how are you", "good morning", "good evening">>

price_desc_phrases == {"most expensive", "highest price", "most costly"}
price_asc_phrases == {"cheapest", "lowest price", "most affordable"}
area_desc_phrases == {"biggest", "largest"}
area_asc_phrases == {"smallest", "tiniest"}
filter_words == <<"with", "in", "under", "above", "near", "bhk", "bedroom", "budget">>

\* re.search(r"(a|b|c)", query) for literal alternatives
SearchAny(q, phrases) == \E p \in phrases : Contains(q, p)

Intents == {"greeting",
            "sort_by_price_desc", "sort_by_price_asc", "sort_by_area_desc", "sort_by_area_asc",
            "sort_by_price_desc_location", "sort_by_price_asc_location",
            "sort_by_area_desc_location", "sort_by_area_asc_location",
            "filter_search", "semantic_search"}

\* classify_user_query that never qualifies a sort intent with its location
classify_never_qualified(q, available) ==
    LET qq == Strip(Lower(q))
    IN IF \E i \in 1..Len(greetings) : Contains(qq, greetings[i]) THEN "greeting"
       ELSE IF SearchAny(qq, price_desc_phrases) THEN "sort_by_price_desc"
       ELSE IF SearchAny(qq, price_asc_phrases) THEN "sort_by_price_asc"
       ELSE IF SearchAny(qq, area_desc_phrases) THEN "sort_by_area_desc"
       ELSE IF SearchAny(qq, area_asc_phrases) THEN "sort_by_area_asc"
       ELSE IF \E i \in 1..Len(filter_words) : Contains(qq, filter_words[i]) THEN "filter_search"
       ELSE "semantic_search"

\* classify_user_query with the greeting check after the sort and filter checks
classify_greeting_last(q, available) ==
    LET qq == Strip(Lower(q))
        loc == extract_location_from_query(qq, available)
    IN IF SearchAny(qq, price_desc_phrases)
       THEN (IF Truthy(loc) THEN "sort_by_price_desc_location" ELSE "sort_by_price_desc")
       ELSE IF SearchAny(qq, price_asc_phrases)
       THEN (IF Truthy(loc) THEN "sort_by_price_asc_location" ELSE "sort_by_price_asc")
       ELSE IF SearchAny(qq, area_desc_phrases)
       THEN (IF Truthy(loc) THEN "sort_by_area_desc_location" ELSE "sort_by_area_desc")
       ELSE IF SearchAny(qq, area_asc_phrases)
       THEN (IF Truthy(loc) THEN "sort_by_area_asc_location" ELSE "sort_by_area_asc")
       ELSE IF \E i \in 1..Len(filter_words) : Contains(qq, filter_words[i]) THEN "filter_search"
       ELSE IF \E i \in 1..Len(greetings) : Contains(qq, greetings[i]) THEN "greeting"
       ELSE "semantic_search"

\* lines 103-125: the intent of the normalised query qq, given the location it resolves to
classify_normalised(qq, loc) ==
    IF \E i \in 1..Len(greetings) : Contains(qq, greetings[i]) THEN "greeting"
    ELSE IF SearchAny(qq, price_desc_phrases)
    THEN (IF Truthy(loc) THEN "sort_by_price_desc_location" ELSE "sort_by_price_desc")
    ELSE IF SearchAny(qq, price_asc_phrases)
    THEN (IF Truthy(loc) THEN "sort_by_price_asc_location" ELSE "sort_by_price_asc")
    ELSE IF SearchAny(qq, area_desc_phrases)
    THEN (IF Truthy(loc) THEN "sort_by_area_desc_location" ELSE "sort_by_area_desc")
    ELSE IF SearchAny(qq, area_asc_phrases)
    THEN (IF Truthy(loc) THEN "sort_by_area_asc_location" ELSE "sort_by_area_asc")
    ELSE IF \E i \in 1..Len(filter_words) : Contains(qq, filter_words[i]) THEN "filter_search"
    ELSE "semantic_search"

classify_user_query(q, available) ==
    classify_normalised(Strip(Lower(q)), extract_location_from_query(Strip(Lower(q)), available))

-----------------------------------------------------------------------------
(* Document store *)

\* An ApartmentRecord as the collection holds it (the _id projected away)
Apartment(b, l, p, a, am) ==
    [bedrooms |-> b, location |-> l, price |-> p, area_sqft |-> a, amenities |-> am]

\* A Python value that is a list of strings or a string
ListVal(items) == [kind |-> "list", items |-> items, text |-> ""]
StrVal(text) == [kind |-> "str", items |-> <<>>, text |-> text]

\* A retrieval result: the dict handle_user_query iterates over
MongoItem(r) ==
    [bedrooms |-> r.bedrooms, location |-> r.location, price |-> r.price,
     area_sqft |-> r.area_sqft, amenities |-> ListVal(r.amenities),
     keys |-> {"bedrooms", "location", "price", "area_sqft", "amenities"},
     similarity_score |-> 0]

Perms(S) == {f \in [1..Cardinality(S) -> S] : \A i, j \in 1..Cardinality(S) : f[i] = f[j] => i = j}

\* get_unique_locations(): the distinct truthy locations, in the order the
\* $group stage happens to emit them
get_unique_locations(coll) ==
    Perms({coll[i].location : i \in {j \in 1..Len(coll) : coll[j].location # ""}})

\* A filter document; keys names the constraints present
EmptyFilter ==
    [keys |-> {}, bedrooms |-> 0, location |-> "", price |-> [op |-> "", amount |-> 0],
     amenities |-> <<>>]

Matches(r, f) ==
    /\ "bedrooms" \in f.keys => r.bedrooms = f.bedrooms
    /\ "location" \in f.keys => r.location = f.location
    /\ "price" \in f.keys =>
          IF f.price.op = "$lte" THEN r.price <= f.price.amount ELSE r.price >= f.price.amount
    /\ "amenities" \in f.keys => Range(f.amenities) \subseteq Range(r.amenities)

\* collection.find(filter_, {"_id": 0}), in natural order
find(coll, f) ==
    LET RECURSIVE select(_)
        select(i) ==
            IF i > Len(coll) THEN <<>>
            ELSE (IF Matches(coll[i], f) THEN <<coll[i]>> ELSE <<>>) \o select(i + 1)
    IN select(1)

\* cursor.sort(field, order): every order of the rows that is sorted on the field
\* (the store breaks ties as it likes)
sort(rows, field, order) ==
    LET n == Len(rows)
        orders == {f \in [1..n -> 1..n] : \A i, j \in 1..n : f[i] = f[j] => i = j}
        sorted(f) == \A i \in 1..(n - 1) :
                        IF order = 1 THEN rows[f[i]][field] <= rows[f[i + 1]][field]
                        ELSE rows[f[i]][field] >= rows[f[i + 1]][field]
    IN {[i \in 1..n |-> rows[f[i]]] : f \in {g \in orders : sorted(g)}}

\* cursor.limit(n)
limit(rows, n) == SubSeq(rows, 1, IF n < Len(rows) THEN n ELSE Len(rows))

NoCall == [filter |-> EmptyFilter, sort_field |-> "", sort_order |-> 0, limit |-> 0, sent |-> FALSE]

FindCall(f, field, order, n) ==
    [filter |-> f, sort_field |-> field, sort_order |-> order, limit |-> n, sent |-> TRUE]

-----------------------------------------------------------------------------
(* Parameter extractor and filter search *)

Digits == "0123456789"
IsDigit(c) == c # "" /\ Contains(Digits, c)
DigitValue(c) == (CHOOSE i \in 1..10 : CharAt(Digits, i) = c) - 1

RECURSIVE DigitRunEnd(_, _)
\* the last position of the run of digits that starts at position i
DigitRunEnd(s, i) == IF IsDigit(CharAt(s, i + 1)) THEN DigitRunEnd(s, i + 1) ELSE i

RECURSIVE ParseInt(_)
\* int(s) of a string of digits
ParseInt(s) ==
    IF s = "" THEN 0
    ELSE 10 * ParseInt(SubSeq(s, 1, Len(s) - 1)) + DigitValue(CharAt(s, Len(s)))

\* re.search(r'(\d)\s?bhk', query): the positions where the pattern matches
bhk_matches(q) ==
    {i \in 1..Len(q) :
        /\ IsDigit(CharAt(q, i))
        /\ \/ CharAt(q, i + 1) \in Whitespace /\ At(q, i + 2, "bhk")
           \/ At(q, i + 1, "bhk")}

\* the position of the digits of (w)\s?(\d+) for word w matched at position i, 0 if none
amount_start(q, i, w) ==
    IF ~At(q, i, w) THEN 0
    ELSE IF CharAt(q, i + Len(w)) \in Whitespace /\ IsDigit(CharAt(q, i + Len(w) + 1))
         THEN i + Len(w) + 1
    ELSE IF IsDigit(CharAt(q, i + Len(w))) THEN i + Len(w)
    ELSE 0

\* the positions where (w1|w2)\s?(\d+) matches
amount_matches(q, words) == {i \in 1..Len(q) : \E w \in words : amount_start(q, i, w) # 0}

\* int() of the run of digits that starts at position d
digits_from(q, d) == ParseInt(SubSeq(q, d, DigitRunEnd(q, d)))

\* group(2) of the match at position i, as an int
amount_at(q, i, words) ==
    digits_from(q, amount_start(q, i, CHOOSE w \in words : amount_start(q, i, w) # 0))

\* int(re.search(r'(w1|w2)\s?(\d+)', query).group(2)): [found, amount]; a failed
\* search raises inside the try and the except swallows it
search_amount(q, words) ==
    IF amount_matches(q, words) = {} THEN [found |-> FALSE, amount |-> 0]
    ELSE [found |-> TRUE, amount |-> amount_at(q, Min(amount_matches(q, words)), words)]

\* filter_["price"] = {op: amount} when the search matched, nothing when it raised
price_constraint(m, the_op) ==
    IF m.found THEN [present |-> TRUE, op |-> the_op, amount |-> m.amount]
    ELSE [present |-> FALSE, op |-> "", amount |-> 0]

\* lines 142-154: the price constraint, [present, op, amount]
price_filter(q) ==
    IF Contains(q, "under") \/ Contains(q, "below")
    THEN price_constraint(search_amount(q, {"under", "below"}), "$lte")
    ELSE IF Contains(q, "above") \/ Contains(q, "over")
    THEN price_constraint(search_amount(q, {"above", "over"}), "$gte")
    ELSE [present |-> FALSE, op |-> "", amount |-> 0]

\* lines 156-165: the amenities asked for, in the order the code appends them
amenity_filter(q) ==
    (IF Contains(q, "pool") THEN <<"Swimming Pool">> ELSE <<>>)
    \o (IF Contains(q, "gym") THEN <<"Gym">> ELSE <<>>)
    \o (IF Contains(q, "parking") THEN <<"Parking">> ELSE <<>>)

\* The filter_ dict of the constraints found in the lower-cased query q
filter_of(q, bhk, loc, price, amen) ==
    [keys |-> (IF bhk # {} THEN {"bedrooms"} ELSE {})
              \cup (IF Truthy(loc) THEN {"location"} ELSE {})
              \cup (IF price.present THEN {"price"} ELSE {})
              \cup (IF amen # <<>> THEN {"amenities"} ELSE {}),
     bedrooms |-> IF bhk # {} THEN DigitValue(CharAt(q, Min(bhk))) ELSE 0,
     location |-> IF Truthy(loc) THEN loc ELSE "",
     price |-> IF price.present THEN [op |-> price.op, amount |-> price.amount]
               ELSE [op |-> "", amount |-> 0],
     amenities |-> amen]

\* lines 129-165: the filter_ that filter_based_search builds
lowered_filter(q, available) ==
    filter_of(q, bhk_matches(q), extract_location_from_query(q, available),
              price_filter(q), amenity_filter(q))

build_filter(raw, available) == lowered_filter(Lower(raw), available)

\* list(cursor) of the rows of a cursor
items_of(rows) == [i \in 1..Len(rows) |-> MongoItem(rows[i])]

\* lines 166-167: collection.find(filter_, {"_id": 0}) and its rows
run_filter(f, coll) == [call |-> FindCall(f, "", 0, 0), rows |-> items_of(find(coll, f))]

\* filter_based_search(query, available_locations): the call sent and its rows
filter_based_search(raw, available, coll) == run_filter(build_filter(raw, available), coll)

-----------------------------------------------------------------------------
(* Vector index and semantic search *)

RECURSIVE Join(_, _)
\* sep.join(items)
Join(sep, items) ==
    IF items = <<>> THEN ""
    ELSE IF Len(items) = 1 THEN items[1]
    ELSE items[1] \o sep \o Join(sep, Tail(items))

\* s.split(",")[-1]
LastSegment(s) ==
    LET commas == {i \in 1..Len(s) : CharAt(s, i) = ","}
    IN IF commas = {} THEN s
       ELSE LET last == CHOOSE i \in commas : \A j \in commas : j <= i
            IN SubSeq(s, last + 1, Len(s))

\* One Document of create_langchain_documents (the currency sign of the text left out)
Document(apartment) ==
    LET amenities == Join(", ", apartment.amenities)
    IN [page_content |->
            "This is a " \o ToString(apartment.bedrooms) \o " BHK apartment in "
            \o apartment.location \o ". It spans " \o ToString(apartment.area_sqft)
            \o " sqft and is priced at " \o ToString(apartment.price)
            \o ". Key amenities include: " \o amenities \o ".",
        metadata |->
            [bedrooms |-> apartment.bedrooms, location |-> apartment.location,
             price |-> apartment.price, area_sqft |-> apartment.area_sqft,
             amenities |-> amenities,
             city |-> IF apartment.location # ""
                      THEN Lower(Strip(LastSegment(apartment.location))) ELSE "unknown"]]

create_langchain_documents(data) == [i \in 1..Len(data) |-> Document(data[i])]

\* Distances are counted in units of 10^-5.
\* round(x, d) for x in units of 10^-5 and unit = 10^(5-d); a tie goes to the even side
Round(x, unit) ==
    LET r == x % unit
        down == x - r
    IN IF 2 * r < unit THEN down
       ELSE IF 2 * r > unit THEN down + unit
       ELSE IF (down \div unit) % 2 = 0 THEN down ELSE down + unit

\* The distance the embedding gives the document ranked j-th for a query
Distance(j) == 12344 * j

RECURSIVE Ranked(_, _, _)
\* The index entries in the order of a ranking of its distinct documents, each
\* with its distance; equal documents embed alike and share their distance
Ranked(index, rank, j) ==
    IF j > Len(rank) THEN <<>>
    ELSE [i \in 1..Cardinality({n \in 1..Len(index) : index[n] = rank[j]}) |->
             [doc |-> rank[j], score |-> Distance(j)]]
         \o Ranked(index, rank, j + 1)

\* vectorstore.similarity_search_with_score(query, k): the k nearest entries,
\* nearest first; which document is nearest to a query is the embedding's choice
similarity_search_with_score(index, k) ==
    {limit(Ranked(index, rank, 1), k) : rank \in Perms(Range(index))}

DedupKey(meta) == <<meta.bedrooms, meta.location, meta.price, meta.area_sqft>>

\* The meta dict chromadb_semantic_search appends: the metadata plus
\* similarity_score and summary (the summary is overwritten by handle_user_query)
SemanticItem(meta, score) ==
    [bedrooms |-> meta.bedrooms, location |-> meta.location, price |-> meta.price,
     area_sqft |-> meta.area_sqft, amenities |-> StrVal(meta.amenities),
     keys |-> {"bedrooms", "location", "price", "area_sqft", "amenities", "city",
               "similarity_score", "summary"},
     similarity_score |-> Round(score, 10)]

RECURSIVE semantic_scan_no_dedup(_, _, _, _, _)
\* the loop of chromadb_semantic_search without the `key not in unique` test
semantic_scan_no_dedup(found, k, i, unique, filtered) ==
    IF i > Len(found) THEN filtered
    ELSE LET meta == found[i].doc.metadata
             out == Append(filtered, SemanticItem(meta, found[i].score))
         IN IF Len(out) >= k THEN out
            ELSE semantic_scan_no_dedup(found, k, i + 1, unique \cup {DedupKey(meta)}, out)

RECURSIVE semantic_scan(_, _, _, _, _)
\* lines 175-189: the loop over the neighbours from position i on
semantic_scan(found, k, i, unique, filtered) ==
    IF i > Len(found) THEN filtered
    ELSE LET meta == found[i].doc.metadata
             key == DedupKey(meta)
             out == IF key \notin unique
                    THEN Append(filtered, SemanticItem(meta, found[i].score))
                    ELSE filtered
         IN IF Len(out) >= k THEN out
            ELSE semantic_scan(found, k, i + 1, unique \cup {key}, out)

\* chromadb_semantic_search(query, top_k), given what the index returned
chromadb_semantic_search(found, k) == semantic_scan(found, k, 1, {}, <<>>)

-----------------------------------------------------------------------------
(* Retrieval dispatcher *)

Retrieval(call, loc, found, rows) ==
    [call |-> call, location |-> loc, neighbors |-> found, rows |-> rows]

\* lines 196-199: filter_ = {"location": location} if location else {}
location_filter(loc) ==
    IF Truthy(loc) THEN [EmptyFilter EXCEPT !.keys = {"location"}, !.location = loc]
    ELSE EmptyFilter

\* collection.find(f).sort(field, order).limit(k): every result the store may give
sorted_find(f, loc, sort_field, sort_order, k, coll) ==
    {Retrieval(FindCall(f, sort_field, sort_order, k), loc, <<>>, items_of(limit(rows, k)))
       : rows \in sort(find(coll, f), sort_field, sort_order)}

\* handle_location_specific_sort: every result the store may give
handle_location_specific_sort(q, sort_field, sort_order, available, k, coll) ==
    sorted_find(location_filter(extract_location_from_query(q, available)),
                extract_location_from_query(q, available), sort_field, sort_order, k, coll)

\* lines 227-234: collection.find({}).sort(field, order).limit(top_k)
general_sort(sort_field, sort_order, k, coll) ==
    sorted_find(EmptyFilter, None, sort_field, sort_order, k, coll)

\* lines 236-237: the retrieval of a filter search r
filter_retrieval(r) ==
    Retrieval(r.call,
              IF "location" \in r.call.filter.keys THEN r.call.filter.location ELSE None,
              <<>>, r.rows)

\* lines 217-240 of handle_user_query: every retrieval the intent can lead to
retrieve(the_intent, q, available, k, coll, index) ==
    CASE the_intent = "sort_by_price_desc_location" ->
            handle_location_specific_sort(q, "price", -1, available, k, coll)
      [] the_intent = "sort_by_price_asc_location" ->
            handle_location_specific_sort(q, "price", 1, available, k, coll)
      [] the_intent = "sort_by_area_desc_location" ->
            handle_location_specific_sort(q, "area_sqft", -1, available, k, coll)
      [] the_intent = "sort_by_area_asc_location" ->
            handle_location_specific_sort(q, "area_sqft", 1, available, k, coll)
      [] the_intent = "sort_by_price_desc" -> general_sort("price", -1, k, coll)
      [] the_intent = "sort_by_price_asc" -> general_sort("price", 1, k, coll)
      [] the_intent = "sort_by_area_desc" -> general_sort("area_sqft", -1, k, coll)
      [] the_intent = "sort_by_area_asc" -> general_sort("area_sqft", 1, k, coll)
      [] the_intent = "filter_search" ->
            {filter_retrieval(filter_based_search(q, available, coll))}
      [] OTHER ->
            {Retrieval(NoCall, None, found, chromadb_semantic_search(found, k))
               : found \in similarity_search_with_score(index, 2 * k)}

-----------------------------------------------------------------------------
(* Response formatter *)

NoDetails ==
    [bedrooms |-> 0, location |-> "", price |-> 0, area_sqft |-> 0, amenities |-> StrVal("")]

\* An item of the list handle_user_query returns; keys names the dict's keys
MessageItem(type, summary) ==
    [keys |-> {"summary", "type"}, type |-> type, summary |-> summary, details |-> NoDetails]

\* f"{x:.2f}" for x in units of 10^-5
Format2(x) ==
    LET v == Round(x, 1000)
        frac == (v % 100000) \div 1000
    IN ToString(v \div 100000) \o "." \o (IF frac < 10 THEN "0" ELSE "") \o ToString(frac)

\* lines 245-266: the enriched item of one result (the emoji of the text left out)
enriched_item(item) ==
    [keys |-> {"summary", "details"},
     type |-> "",
     summary |->
        "**" \o ToString(item.bedrooms) \o " BHK Apartment**\n"
        \o "**Location:** " \o item.location \o "\n"
        \o "**Area:** " \o ToString(item.area_sqft) \o " sqft\n"
        \o "**Price:** " \o ToString(item.price) \o "\n"
        \o "**Amenities:** "
        \o (IF item.amenities.kind = "list" THEN Join(", ", item.amenities.items)
            ELSE item.amenities.text) \o "\n"
        \o (IF "similarity_score" \in item.keys
            THEN "**Relevance Score:** " \o Format2(item.similarity_score) ELSE ""),
     details |->
        [bedrooms |-> item.bedrooms, location |-> item.location, price |-> item.price,
         area_sqft |-> item.area_sqft, amenities |-> item.amenities]]

greeting_text ==
    "Hello! I'm your apartment search assistant. How can I help you find your perfect home today?"

no_results_text ==
    "I couldn't find any apartments matching your criteria. Try broadening your search or adjusting your filters."

\* lines 276-290: the header text of an intent
header_text(the_intent, loc) ==
    LET where == IF Truthy(loc) THEN " in " \o loc ELSE " we have"
    IN IF Contains(the_intent, "sort_by_price_desc")
       THEN "Here are the most expensive apartments" \o where \o ":"
       ELSE IF Contains(the_intent, "sort_by_price_asc")
       THEN "Here are the most affordable apartments" \o where \o ":"
       ELSE IF Contains(the_intent, "sort_by_area_desc")
       THEN "Here are the largest apartments" \o where \o ":"
       ELSE IF Contains(the_intent, "sort_by_area_asc")
       THEN "Here are the most compact apartments" \o where \o ":"
       ELSE IF the_intent = "filter_search" THEN "Here are apartments matching your filters:"
       ELSE "Here are some apartments that might interest you:"

\* lines 243-266: enriched_results, one item for each result
enriched_results(rows) == [i \in 1..Len(rows) |-> enriched_item(rows[i])]

\* format_results with the header appended after the records
format_results_header_last(the_intent, q, available, rows) ==
    IF rows = <<>> THEN <<MessageItem("no_results", no_results_text)>>
    ELSE Append(enriched_results(rows),
                MessageItem("header",
                            header_text(the_intent, extract_location_from_query(q, available))))

\* lines 242-298 of handle_user_query: the list returned for the retrieved rows
format_results(the_intent, q, available, rows) ==
    IF enriched_results(rows) = <<>> THEN <<MessageItem("no_results", no_results_text)>>
    ELSE <<MessageItem("header",
                       header_text(the_intent, extract_location_from_query(q, available)))>>
         \o enriched_results(rows)

-----------------------------------------------------------------------------
(* Response envelope *)

NoResponse == [keys |-> {}, status |-> "", message |-> "", query |-> "", results |-> <<>>]

\* A result of the success envelope
ResultItem(match) ==
    [keys |-> {"summary", "similarity_score"},
     summary |-> IF "summary" \in match.keys THEN match.summary ELSE "No summary available.",
     \* round(float(match.get("similarity_score", 0)), 3)
     similarity_score |->
        Round(IF "similarity_score" \in match.keys THEN match.similarity_score ELSE 0, 100)]

\* get_chat_response(query), given what handle_user_query returned
get_chat_response(matches, q) ==
    IF matches = <<>>
    THEN [keys |-> {"status", "message", "results"}, status |-> "no_results",
          message |-> "Sorry, no matching apartments found.", query |-> "", results |-> <<>>]
    ELSE IF "type" \in matches[1].keys /\ matches[1].type = "greeting"
    THEN [keys |-> {"status", "message", "results"}, status |-> "greeting",
          message |-> matches[1].summary, query |-> "", results |-> <<>>]
    ELSE [keys |-> {"status", "query", "results"}, status |-> "success",
          message |-> "", query |-> q, results |-> [i \in 1..Len(matches) |-> ResultItem(matches[i])]]

-----------------------------------------------------------------------------
(* Inputs *)

RECURSIVE Phrases(_, _)
\* The texts made of at most n of the given pieces, one after the other
Phrases(pieces, n) ==
    IF n = 0 THEN {""}
    ELSE LET shorter == Phrases(pieces, n - 1)
         IN shorter \cup {p \o w : p \in shorter, w \in pieces}

\* The sequences of at most n elements of S
SeqsUpTo(S, n) == UNION {[1..m -> S] : m \in 0..n}

\* The apartments a collection is drawn from; one location was stored with a
\* trailing blank
Apartments ==
    {Apartment(2, "Baner, Pune", 3, 9, <<"Gym", "Parking">>),
     Apartment(3, "Pune", 5, 6, <<"Swimming Pool">>),
     Apartment(2, "Baner, Pune ", 5, 9, <<>>)}

Collections == SeqsUpTo(Apartments, MaxRecords)

\* The queries sent to the service: a request, what is asked for, and a place
ChatOpeners ==
    {"", "hi ", "cheapest ", "most expensive ", "biggest ", "smallest ", "2 bhk ", "under 4 "}
ChatSubjects == {"", "flat ", "with gym "}
ChatPlaces == {"", "pune", "baner, pune "}

\* (the transport layer rejects an empty query before it reaches the service)
ChatQueries ==
    {a \o b \o c : a \in ChatOpeners, b \in ChatSubjects, c \in ChatPlaces} \ {""}

\* handle_user_query's default top_k
default_top_k == 5

-----------------------------------------------------------------------------
(* The service: startup, handle_user_query and get_chat_response *)

Idle ==
    /\ op = "idle"
    /\ query = ""
    /\ top_k = 0
    /\ available_locations = <<>>
    /\ neighbors = <<>>
    /\ intent = ""
    /\ location = None
    /\ store_call = NoCall
    /\ results = <<>>
    /\ enriched = <<>>
    /\ response = NoResponse

\* A call is made only while no other is in progress: each request is handled
\* from start to end
Waiting == op = "idle"

\* data_loader.py lines 8-11 and 58-62: the collection as the store holds it and
\* the index built from it; no call is in progress
Init ==
    /\ collection \in Collections
    /\ vectorstore = create_langchain_documents(collection)
    /\ Idle

\* handle_user_query(q, k): everything it computes
Handled(q, k) ==
    \E available \in get_unique_locations(collection) :
        \E the_intent \in {classify_user_query(q, available)} :
           /\ query' = q
           /\ top_k' = k
           /\ available_locations' = available
           /\ intent' = the_intent
           /\ IF the_intent = "greeting"
              THEN /\ location' = None
                   /\ store_call' = NoCall
                   /\ neighbors' = <<>>
                   /\ results' = <<>>
                   /\ enriched' = <<MessageItem("greeting", greeting_text)>>
              ELSE \E r \in retrieve(the_intent, q, available, k, collection, vectorstore) :
                   /\ location' = r.location
                   /\ store_call' = r.call
                   /\ neighbors' = r.neighbors
                   /\ results' = r.rows
                   /\ enriched' = format_results(the_intent, q, available, r.rows)

HandleUserQuery(q, k) ==
    /\ Handled(q, k)
    /\ op' = "handle_user_query"
    /\ response' = NoResponse
    /\ UNCHANGED <<collection, vectorstore>>

\* get_chat_response(q)
Chat(q) ==
    /\ Handled(q, default_top_k)
    /\ op' = "get_chat_response"
    /\ response' = get_chat_response(enriched', q)
    /\ UNCHANGED <<collection, vectorstore>>

\* The call returns to its caller; the service waits for the next one
Return ==
    /\ op # "idle"
    /\ op' = "idle"
    /\ query' = ""
    /\ top_k' = 0
    /\ available_locations' = <<>>
    /\ neighbors' = <<>>
    /\ intent' = ""
    /\ location' = None
    /\ store_call' = NoCall
    /\ results' = <<>>
    /\ enriched' = <<>>
    /\ response' = NoResponse
    /\ UNCHANGED <<collection, vectorstore>>

Next ==
    \/ Waiting /\ \E q \in ChatQueries : Chat(q)
    \/ Waiting /\ \E q \in ChatQueries, k \in 1..MaxTopK : HandleUserQuery(q, k)
    \/ Return

Spec == Init /\ [][Next]_vars

-----------------------------------------------------------------------------
(* The text functions called on their own *)

\* The known locations a caller may pass: distinct non-empty strings, as
\* get_unique_locations returns them; two differ only in case, one ends in a blank
LocationPool ==
    {"Baner, Pune", "Kothrud", "Pune", "pune", "Andheri, Mumbai", "Baner, Pune "}

LocationLists ==
    {l \in SeqsUpTo(LocationPool, MaxLocations) : \A i, j \in 1..Len(l) : l[i] = l[j] => i = j}

ResolveWords == {"baner ", "Kothrud", "pune", "Baner, Pune ", "bombay ", "mumbai", "flat in "}
ResolveQueries == Phrases(ResolveWords, MaxWords)

ClassifyWords ==
    {"Hi ", "hey in pune ", "cheapest ", "largest ", "with ", "Baner, Pune ", "this", "flat"}
ClassifyQueries == Phrases(ClassifyWords, MaxWords)

FilterWords == {"above 4 ", "under 6 ", "over 3", "below ", "2 bhk ", "pune ", "pool "}
FilterQueries == Phrases(FilterWords, MaxWords)

\* No call in progress and an empty store
TextInit ==
    /\ collection = <<>>
    /\ vectorstore = <<>>
    /\ Idle

\* extract_location_from_query(q, available)
ExtractLocation(q, available) ==
    /\ op' = "extract_location_from_query"
    /\ query' = q
    /\ available_locations' = available
    /\ location' = extract_location_from_query(q, available)
    /\ UNCHANGED <<collection, vectorstore, top_k, neighbors, intent, store_call, results,
                   enriched, response>>

NextResolve ==
    \/ Waiting /\ \E q \in ResolveQueries, available \in LocationLists :
                    ExtractLocation(q, available)
    \/ Return

SpecResolve == TextInit /\ [][NextResolve]_vars

\* classify_user_query(q, available)
Classify(q, available) ==
    /\ op' = "classify_user_query"
    /\ query' = q
    /\ available_locations' = available
    /\ intent' = classify_user_query(q, available)
    /\ UNCHANGED <<collection, vectorstore, top_k, neighbors, location, store_call, results,
                   enriched, response>>

NextClassify ==
    \/ Waiting /\ \E q \in ClassifyQueries, available \in LocationLists :
                    Classify(q, available)
    \/ Return

SpecClassify == TextInit /\ [][NextClassify]_vars

\* filter_based_search(q, available_locations) on the collection, with the
\* locations its caller fetched
FilterBasedSearch(q) ==
    /\ \E available \in get_unique_locations(collection) :
         LET r == filter_based_search(q, available, collection)
         IN /\ available_locations' = available
            /\ store_call' = r.call
            /\ results' = r.rows
    /\ op' = "filter_based_search"
    /\ query' = q
    /\ UNCHANGED <<collection, vectorstore, top_k, neighbors, intent, location, enriched,
                   response>>

NextFilter ==
    \/ Waiting /\ \E q \in FilterQueries : FilterBasedSearch(q)
    \/ Return

SpecFilter == Init /\ [][NextFilter]_vars

-----------------------------------------------------------------------------
(* Semantic search on any neighbour list *)

\* Indexed documents: the first two share their dedup key and differ in amenities
IndexedDocuments ==
    {Document(Apartment(2, "Baner, Pune", 3, 9, <<"Gym", "Parking">>)),
     Document(Apartment(2, "Baner, Pune", 3, 9, <<>>)),
     Document(Apartment(3, "Pune", 5, 6, <<"Swimming Pool">>))}

IndexedDistances == {12344, 56789}

\* What similarity_search_with_score(query, k) may return: at most k entries,
\* nearest first
NeighborLists(k) ==
    {l \in SeqsUpTo([doc : IndexedDocuments, score : IndexedDistances], k) :
        \A i \in 1..(Len(l) - 1) : l[i].score <= l[i + 1].score}

\* chromadb_semantic_search(query, k) when the index returns found
SemanticSearch(found, k) ==
    /\ op' = "chromadb_semantic_search"
    /\ top_k' = k
    /\ neighbors' = found
    /\ results' = chromadb_semantic_search(found, k)
    /\ UNCHANGED <<collection, vectorstore, query, available_locations, intent, location,
                   store_call, enriched, response>>

NextSemantic ==
    \/ Waiting /\ \E k \in 1..MaxTopK : \E found \in NeighborLists(2 * k) :
                    SemanticSearch(found, k)
    \/ Return

SpecSemantic == TextInit /\ [][NextSemantic]_vars

-----------------------------------------------------------------------------
(* Properties *)

HandlerCalls == {"handle_user_query", "get_chat_response"}

SortIntents == Intents \ {"greeting", "filter_search", "semantic_search"}

LocationQualified(i) == Len(i) > 9 /\ SubSeq(i, Len(i) - 8, Len(i)) = "_location"

GreetingPhrases == {"hi", "hello", "hey", "how are you", "good morning", "good evening"}

Superlatives ==
    [sort_by_price_desc |-> {"most expensive", "highest price", "most costly"},
     sort_by_price_asc |-> {"cheapest", "lowest price", "most affordable"},
     sort_by_area_desc |-> {"biggest", "largest"},
     sort_by_area_asc |-> {"smallest", "tiniest"}]

HasGreeting(q) == \E g \in GreetingPhrases : Contains(Lower(q), g)

HasSuperlative(q) ==
    \E family \in DOMAIN Superlatives : \E p \in Superlatives[family] : Contains(Lower(q), p)

\* C1: a non-greeting query whose retrieval yields no record is answered by an
\* envelope of status no_results with an empty results list.
C1_NoResultsEnvelope ==
    (op = "get_chat_response" /\ intent # "greeting" /\ results = <<>>)
        => (response.status = "no_results" /\ response.results = <<>>)

\* C2: a query whose lower-cased text contains a greeting phrase is classified
\* greeting, whatever superlative, filter word or location it also contains.
C2_GreetingWins ==
    (op = "classify_user_query" /\ HasGreeting(query)) => intent = "greeting"

\* C2 witness: a greeting together with a superlative, a filter word and a known location
C2_Witness ==
    /\ op = "classify_user_query"
    /\ HasGreeting(query)
    /\ HasSuperlative(query)
    /\ Contains(Lower(query), "in")
    /\ extract_location_from_query(query, available_locations) # None
    /\ intent = "greeting"

\* C3: the intent is one of the closed enumeration, and when a superlative matches
\* and no greeting does it is the sort intent of a matching family, in its
\* _location variant exactly when extract_location_from_query resolves a
\* location for the query against the known locations.
C3_OneIntentQualifiedIffResolved ==
    op = "classify_user_query" =>
        /\ intent \in Intents
        /\ (HasSuperlative(query) /\ ~HasGreeting(query)) =>
              /\ intent \in SortIntents
              /\ \E family \in DOMAIN Superlatives :
                    /\ \E p \in Superlatives[family] : Contains(Lower(query), p)
                    /\ intent \in {family, family \o "_location"}
              /\ LocationQualified(intent)
                    <=> extract_location_from_query(query, available_locations) # None

\* C3 witness: a location-qualified sort intent for a query the classifier trims,
\* and an unqualified one is covered by the same run
C3_Witness ==
    /\ op = "classify_user_query"
    /\ intent = "sort_by_price_asc_location"
    /\ Strip(query) # query
    /\ Len(available_locations) > 1

\* C4: semantic search returns at most top_k results and no two of them share
\* the tuple (bedrooms, location, price, area_sqft).
C4_SemanticUniqueAndCapped ==
    op = "chromadb_semantic_search" =>
        /\ Len(results) <= top_k
        /\ \A i, j \in 1..Len(results) :
              <<results[i].bedrooms, results[i].location, results[i].price, results[i].area_sqft>>
                = <<results[j].bedrooms, results[j].location, results[j].price,
                    results[j].area_sqft>>
              => i = j

\* C4 witness: the index returned more than top_k neighbours, two of them with
\* the same key, and the search filled its top_k
C4_Witness ==
    /\ op = "chromadb_semantic_search"
    /\ Len(neighbors) > top_k
    /\ Len(results) = top_k
    /\ top_k > 1
    /\ \E i, j \in 1..Len(neighbors) :
          i < j /\ DedupKey(neighbors[i].doc.metadata) = DedupKey(neighbors[j].doc.metadata)

\* the price constraint the filter sent to the store carries
CarriesPrice(f, the_op, amount) ==
    "price" \in f.keys /\ f.price.op = the_op /\ f.price.amount = amount

\* C5: the price floor and the price ceiling are independent and both applied:
\* above/over followed by a number puts price >= that number in the filter, also
\* when under/below occurs in the query, and under/below followed by a number
\* puts price <= that number in it.
C5_FloorAndCeilingIndependent ==
    op = "filter_based_search" =>
        LET floor == search_amount(Lower(query), {"above", "over"})
            ceiling == search_amount(Lower(query), {"under", "below"})
        IN /\ floor.found => CarriesPrice(store_call.filter, "$gte", floor.amount)
           /\ ceiling.found => CarriesPrice(store_call.filter, "$lte", ceiling.amount)

\* C6: the details of every record item are the fields of a record of the
\* store, amenities being the record's list of strings, on every retrieval path.
C6_DetailsReflectRecord ==
    op \in HandlerCalls =>
        \A i \in 1..Len(enriched) :
            "details" \in enriched[i].keys =>
                \E r \in Range(collection) :
                    /\ enriched[i].details.bedrooms = r.bedrooms
                    /\ enriched[i].details.location = r.location
                    /\ enriched[i].details.price = r.price
                    /\ enriched[i].details.area_sqft = r.area_sqft
                    /\ enriched[i].details.amenities = ListVal(r.amenities)

\* C7: for a sort intent the store is queried with a filter holding only the
\* location when the intent is location-qualified and nothing otherwise, sorted
\* on price or area_sqft, ascending or descending as the intent names, limited
\* to top_k; the location of the filter is the one the classifier resolved.
C7_SortCall ==
    (op \in HandlerCalls /\ intent \in SortIntents) =>
        /\ store_call.sent
        /\ store_call.filter.keys = (IF LocationQualified(intent) THEN {"location"} ELSE {})
        /\ store_call.sort_field = (IF Contains(intent, "price") THEN "price" ELSE "area_sqft")
        /\ store_call.sort_order = (IF Contains(intent, "asc") THEN 1 ELSE -1)
        /\ store_call.limit = top_k
        /\ Len(results) <= top_k
        /\ LocationQualified(intent) =>
              store_call.filter.location
                = extract_location_from_query(Strip(Lower(query)), available_locations)

\* C8: in a success envelope (here: one for at least one retrieved record) a
\* result carries a similarity_score only when it is a record found by semantic
\* search, and the score is then the one the semantic ranker attached to it.
C8_ScoreOnlyForSemanticRecords ==
    (op = "get_chat_response" /\ response.status = "success" /\ Len(results) >= 1) =>
        \A i \in 1..Len(response.results) :
            "similarity_score" \in response.results[i].keys =>
                /\ intent = "semantic_search"
                /\ i > 1
                /\ response.results[i].similarity_score = results[i - 1].similarity_score

\* C9: with at least one record retrieved for a non-greeting query, the list
\* returned holds one header item, first, followed by the record items in the
\* order of the retrieval.
C9_HeaderThenRecordsInOrder ==
    (op \in HandlerCalls /\ intent # "greeting" /\ Len(results) >= 1) =>
        /\ Len(enriched) = Len(results) + 1
        /\ enriched[1].type = "header"
        /\ \A i \in 2..Len(enriched) :
              /\ enriched[i].type # "header"
              /\ "details" \in enriched[i].keys
              /\ enriched[i].details.bedrooms = results[i - 1].bedrooms
              /\ enriched[i].details.location = results[i - 1].location
              /\ enriched[i].details.price = results[i - 1].price
              /\ enriched[i].details.area_sqft = results[i - 1].area_sqft
              /\ enriched[i].details.amenities = results[i - 1].amenities

\* C9 witness: two different records retrieved for a non-greeting query
C9_Witness ==
    /\ op \in HandlerCalls
    /\ intent # "greeting"
    /\ Len(results) >= 2
    /\ results[1] # results[2]
    /\ Len(enriched) = Len(results) + 1

FullMatches(q, available) ==
    {l \in Range(available) : Contains(Lower(q), Lower(l))}

SegmentMatches(q, available) ==
    {l \in Range(available) : Contains(Lower(q), Strip(FirstSegment(Lower(l))))}

AliasMatches(q, available) ==
    {l \in Range(available) :
        \E k \in 1..Len(city_aliases) :
            Contains(Lower(q), city_aliases[k]) /\ Contains(Lower(l), city_aliases[k])}

\* C10: the resolver returns none or a known location; a location whose full
\* string is in the query if there is one, else one whose leading segment is in
\* the query if there is one, else one matched through a city alias if there is
\* one, and none only when all three stages fail.
C10_StagesInPriority ==
    op = "extract_location_from_query" =>
        LET full == FullMatches(query, available_locations)
            segment == SegmentMatches(query, available_locations)
            alias == AliasMatches(query, available_locations)
        IN /\ location = None \/ location \in Range(available_locations)
           /\ full # {} => location \in full
           /\ (full = {} /\ segment # {}) => location \in segment
           /\ (full = {} /\ segment = {} /\ alias # {}) => location \in alias
           /\ location = None <=> (full = {} /\ segment = {} /\ alias = {})

\* C10 witness: the query holds the full string of the second known location
\* and only the leading segment of the first
C10_Witness ==
    /\ op = "extract_location_from_query"
    /\ Len(available_locations) = 2
    /\ available_locations[2] \in FullMatches(query, available_locations)
    /\ available_locations[1] \notin FullMatches(query, available_locations)
    /\ available_locations[1] \in SegmentMatches(query, available_locations)
    /\ location = available_locations[2]

====
